---- MODULE Spec2Model ----
(***************************************************************************)
(* State-machine model of game.js (Ultimate Zombie Shooter).               *)
(*                                                                         *)
(* The program is a set of browser callbacks over module-level state: the  *)
(* keyboard / mouse handlers, the reload timers (setTimeout), and the two   *)
(* requestAnimationFrame chains update() and draw().  Every handler is an  *)
(* operator from a state record to a state record, so that handlers that   *)
(* call each other (update -> shootAtMouse -> autoReload, update ->        *)
(* explode, update -> spawnWave) compose as in the source.                 *)
(*                                                                         *)
(* Abstractions (all of them over inputs, none over handler logic):        *)
(*  - floating point geometry is replaced by the outcome of each overlap   *)
(*    test, supplied per frame as index sets (which bullets left the arena,*)
(*    which enemies touch the player, ...);                                *)
(*  - Math.random() is replaced by a random stream chosen per handler run; *)
(*  - cosmetic particles and the DOM text are not modelled.                *)
(***************************************************************************)
EXTENDS Integers, Sequences, FiniteSets, TLC

VARIABLES
    gameStarted, gameOver, score, coins, level, enemiesToSpawn,
    player, bullets, enemies, particles, pickups,
    weapons, currentWeaponKey, lastShotAt, reloading, timers,
    mouseDown, lastT, pickupSpawnTimer,
    pendingUpdate, pendingDraw, dueUpdate, dueDraw,
    now, overSignals, notice

vars == << gameStarted, gameOver, score, coins, level, enemiesToSpawn,
           player, bullets, enemies, particles, pickups,
           weapons, currentWeaponKey, lastShotAt, reloading, timers,
           mouseDown, lastT, pickupSpawnTimer,
           pendingUpdate, pendingDraw, dueUpdate, dueDraw,
           now, overSignals, notice >>

(***************************************************************************)
(* Bounds of the model.                                                    *)
(***************************************************************************)
\* Date.now() when the page loads (any value larger than every interval).
Epoch == 2000
\* End of the session (ms) of the arsenal and of the combat specification:
\* no frame starts and no input event arrives after it, and the reload timers
\* still pending then run to completion.
MaxNow == 3200
MaxNowCombat == 3700
\* No shot is requested by mouse while more bullets than this are in flight.
MaxBullets == 8
\* Random streams 0..MaxSeed.
MaxSeed == 1
\* No start or restart is requested while a requestAnimationFrame chain has
\* this many callbacks.
MaxChains == 2
\* The player moves within -Reach..Reach frame-steps of the spawn point.
Reach == 1

\* The shop is visited with 0..MaxCoins coins.
MaxCoins == 300

\* The wave specification starts at the levels 1..MaxWaveLevel, draws its
\* waves from the streams 0..MaxWaveSeed, and lets the player fire MaxShots
\* times and MaxBlasts explosions go off.
MaxWaveLevel == 5
MaxWaveSeed == 1
MaxShots == 4
MaxBlasts == 1

\* Time between two animation frames (ms).
FrameMs == 500
Seeds == 0..MaxSeed

(***************************************************************************)
(* Utilities                                                               *)
(***************************************************************************)
Min(a, b) == IF a < b THEN a ELSE b
Max(a, b) == IF a > b THEN a ELSE b
clamp(v, a, b) == Max(a, Min(b, v))

\* Array.prototype.splice(i, 1) on a 1-based sequence; no effect out of range.
RemoveAt(q, i) ==
    IF i < 1 \/ i > Len(q) THEN q
    ELSE SubSeq(q, 1, i - 1) \o SubSeq(q, i + 1, Len(q))

\* Math.random() of stream rs, as a percentage 0..99.
random(rs) == (rs * 74 + 10) % 100
\* The i-th Math.random() of a wave of stream rs, as a percentage.
WaveDraws == << 10, 60, 80, 95 >>
WaveDraw(rs, i) == WaveDraws[((rs + i) % 4) + 1]
\* Math.floor(Math.random() * n)
RandInt(r, n) == (r * n) \div 100

(***************************************************************************)
(* Weapons catalog (immutable part) and keys                               *)
(***************************************************************************)
Keys == {"pistol", "smg", "machine", "shotgun", "sniper", "rocket"}

WeaponStats ==
    [ pistol  |-> [maxAmmo |-> 12, damage |-> 1, fireRate |-> 220,  reload |-> 800,  type |-> "bullet", pellets |-> 0, price |-> 0],
      smg     |-> [maxAmmo |-> 30, damage |-> 1, fireRate |-> 80,   reload |-> 1000, type |-> "bullet", pellets |-> 0, price |-> 50],
      machine |-> [maxAmmo |-> 60, damage |-> 1, fireRate |-> 45,   reload |-> 1400, type |-> "bullet", pellets |-> 0, price |-> 120],
      shotgun |-> [maxAmmo |-> 8,  damage |-> 1, fireRate |-> 600,  reload |-> 1600, type |-> "shot",   pellets |-> 7, price |-> 100],
      sniper  |-> [maxAmmo |-> 5,  damage |-> 8, fireRate |-> 900,  reload |-> 1800, type |-> "bullet", pellets |-> 0, price |-> 150],
      rocket  |-> [maxAmmo |-> 2,  damage |-> 6, fireRate |-> 1000, reload |-> 2200, type |-> "rocket", pellets |-> 0, price |-> 250] ]

\* Digit key -> weapon key (keydown handler).
Digits == {"1", "2", "3", "4", "5", "6"}
HotKeys == [ k \in Digits |->
    CASE k = "1" -> "pistol" [] k = "2" -> "smg" [] k = "3" -> "machine"
      [] k = "4" -> "shotgun" [] k = "5" -> "sniper" [] OTHER -> "rocket" ]

(***************************************************************************)
(* The state as one record (the module-level variables of game.js).        *)
(***************************************************************************)
G == [ gameStarted |-> gameStarted, gameOver |-> gameOver, score |-> score,
       coins |-> coins, level |-> level, enemiesToSpawn |-> enemiesToSpawn,
       player |-> player, bullets |-> bullets, enemies |-> enemies,
       particles |-> particles, pickups |-> pickups, weapons |-> weapons,
       currentWeaponKey |-> currentWeaponKey, lastShotAt |-> lastShotAt,
       reloading |-> reloading, timers |-> timers, mouseDown |-> mouseDown,
       lastT |-> lastT, pickupSpawnTimer |-> pickupSpawnTimer,
       pendingUpdate |-> pendingUpdate, pendingDraw |-> pendingDraw,
       dueUpdate |-> dueUpdate, dueDraw |-> dueDraw,
       now |-> now, overSignals |-> overSignals, notice |-> notice ]

\* The input events the model explores keep the state within its bounds.
Bounded(s) ==
    /\ Len(s.bullets) <= MaxBullets
    /\ s.pendingUpdate + s.dueUpdate <= MaxChains
    /\ s.pendingDraw + s.dueDraw <= MaxChains

\* The next state is s.
Commit(s) ==
    /\ gameStarted' = s.gameStarted
    /\ gameOver' = s.gameOver
    /\ score' = s.score
    /\ coins' = s.coins
    /\ level' = s.level
    /\ enemiesToSpawn' = s.enemiesToSpawn
    /\ player' = s.player
    /\ bullets' = s.bullets
    /\ enemies' = s.enemies
    /\ particles' = s.particles
    /\ pickups' = s.pickups
    /\ weapons' = s.weapons
    /\ currentWeaponKey' = s.currentWeaponKey
    /\ lastShotAt' = s.lastShotAt
    /\ reloading' = s.reloading
    /\ timers' = s.timers
    /\ mouseDown' = s.mouseDown
    /\ lastT' = s.lastT
    /\ pickupSpawnTimer' = s.pickupSpawnTimer
    /\ pendingUpdate' = s.pendingUpdate
    /\ pendingDraw' = s.pendingDraw
    /\ dueUpdate' = s.dueUpdate
    /\ dueDraw' = s.dueDraw
    /\ now' = s.now
    /\ overSignals' = s.overSignals
    /\ notice' = s.notice

(***************************************************************************)
(* Player                                                                  *)
(***************************************************************************)
createPlayer == [x |-> 0, maxHp |-> 100, hp |-> 100]

(***************************************************************************)
(* Particles (cosmetic).  The n particles one call pushes draw their       *)
(* lifetimes from the random stream of the handler run, so they are kept   *)
(* as one group.                                                           *)
(***************************************************************************)
\* rand(a, b) for the Math.random() r (a percentage).
rand(r, a, b) == a + (r * (b - a)) \div 100

spawnParticles(s, n, life) ==
    [s EXCEPT !.particles = Append(@, [n |-> n, life |-> life, age |-> 0])]

spawnBlood(s, r, n) == spawnParticles(s, n, rand(r, 500, 900))
spawnMuzzle(s, r) == spawnParticles(s, 4, rand(r, 120, 260))

(***************************************************************************)
(* Shooting and reload                                                     *)
(***************************************************************************)
\* The bullets one shot of weapon k pushes.
ShotBullets(k) ==
    LET w == WeaponStats[k] IN
    CASE w.type = "bullet" -> << [from |-> "player", dmg |-> w.damage, rocket |-> FALSE] >>
      [] w.type = "shot" ->
            [ i \in 1..(IF w.pellets = 0 THEN 6 ELSE w.pellets) |->
                [from |-> "player", dmg |-> w.damage, rocket |-> FALSE] ]
      [] OTHER -> << [from |-> "player", dmg |-> w.damage * 2, rocket |-> TRUE] >>

\* setTimeout(() => { w.ammo = w.maxAmmo; reloading = false; }, w.reload)
ReloadTimer(s, k) == [w |-> k, due |-> s.now + WeaponStats[k].reload]

\* autoReload that schedules nothing.
autoReloadSkipped(s) == s

\* autoReload that sets the flag and schedules no timer.
autoReloadFlagOnly(s) ==
    IF s.reloading THEN s ELSE [s EXCEPT !.reloading = TRUE]

autoReload(s) ==
    IF s.reloading THEN s
    ELSE [s EXCEPT !.reloading = TRUE,
                   !.timers = Append(@, ReloadTimer(s, s.currentWeaponKey))]

\* startReload without its "if(reloading) return".
startReloadAlways(s) ==
    LET k == s.currentWeaponKey IN
    IF s.weapons[k].ammo >= WeaponStats[k].maxAmmo THEN s
    ELSE [s EXCEPT !.reloading = TRUE,
                   !.timers = Append(@, ReloadTimer(s, k))]

startReload(s) ==
    LET k == s.currentWeaponKey IN
    IF s.reloading THEN s
    ELSE IF s.weapons[k].ammo >= WeaponStats[k].maxAmmo THEN s
    ELSE [s EXCEPT !.reloading = TRUE,
                   !.timers = Append(@, ReloadTimer(s, k))]

\* shootAtMouse without its "if(now - lastShotAt < w.fireRate) return".
shootUnlimited(s) ==
    LET k == s.currentWeaponKey IN
    IF ~s.gameStarted \/ s.gameOver THEN s
    ELSE IF ~s.weapons[k].owned THEN s
    ELSE IF s.reloading THEN s
    ELSE IF s.weapons[k].ammo <= 0 THEN autoReload(s)
    ELSE LET s1 == [s EXCEPT !.lastShotAt = s.now,
                             !.weapons[k].ammo = @ - 1,
                             !.bullets = @ \o ShotBullets(k)]
             s2 == spawnMuzzle(s1, random(0))
         IN  IF s2.weapons[k].ammo <= 0 THEN autoReload(s2) ELSE s2

\* shootAtMouse without its "if(reloading) return".
shootWhileReloading(s) ==
    LET k == s.currentWeaponKey IN
    IF ~s.gameStarted \/ s.gameOver THEN s
    ELSE IF ~s.weapons[k].owned THEN s
    ELSE IF s.weapons[k].ammo <= 0 THEN autoReload(s)
    ELSE IF s.now - s.lastShotAt < WeaponStats[k].fireRate THEN s
    ELSE LET s1 == [s EXCEPT !.lastShotAt = s.now,
                             !.weapons[k].ammo = @ - 1,
                             !.bullets = @ \o ShotBullets(k)]
             s2 == spawnMuzzle(s1, random(0))
         IN  IF s2.weapons[k].ammo <= 0 THEN autoReload(s2) ELSE s2

shootAtMouse(s) ==
    LET k == s.currentWeaponKey IN
    IF ~s.gameStarted \/ s.gameOver THEN s
    ELSE IF ~s.weapons[k].owned THEN s
    ELSE IF s.reloading THEN s
    ELSE IF s.weapons[k].ammo <= 0 THEN autoReload(s)
    ELSE IF s.now - s.lastShotAt < WeaponStats[k].fireRate THEN s
    ELSE LET s1 == [s EXCEPT !.lastShotAt = s.now,
                             !.weapons[k].ammo = @ - 1,
                             !.bullets = @ \o ShotBullets(k)]
             s2 == spawnMuzzle(s1, random(0))
         IN  IF s2.weapons[k].ammo <= 0 THEN autoReload(s2) ELSE s2

\* The timer callback refilling the weapon selected when it runs, not the
\* one captured when the reload started.
reloadDoneCurrent(s, i) ==
    LET t == s.timers[i]
        k == s.currentWeaponKey
    IN  [s EXCEPT !.weapons[k].ammo = WeaponStats[k].maxAmmo,
                  !.reloading = FALSE,
                  !.timers = RemoveAt(@, i),
                  !.now = Max(@, t.due)]

\* The timer callback of the i-th pending reload timer.
reloadDone(s, i) ==
    LET t == s.timers[i] IN
    [s EXCEPT !.weapons[t.w].ammo = WeaponStats[t.w].maxAmmo,
              !.reloading = FALSE,
              !.timers = RemoveAt(@, i),
              !.now = Max(@, t.due)]

(***************************************************************************)
(* Enemies                                                                 *)
(***************************************************************************)
spawnEnemy(s, type) ==
    LET hp == CASE type = "fast" -> 1
                [] type = "tank" -> 4 + (s.level \div 2)
                [] type = "spitter" -> 2
                [] type = "bomber" -> 1
                [] type = "boss" -> 20 + s.level * 4
                [] OTHER -> 1 + (s.level \div 4)
        ty == IF type \in {"fast", "tank", "spitter", "bomber", "boss"}
              THEN type ELSE "normal"
    IN  [s EXCEPT !.enemies = Append(@, [type |-> ty, hp |-> hp, lastSpit |-> 0])]

\* The archetype drawn for r = Math.random() (as a percentage).
WaveType(r) ==
    IF r < 55 THEN "normal"
    ELSE IF r < 75 THEN "fast"
    ELSE IF r < 88 THEN "spitter"
    ELSE "tank"

\* The spawn loop testing i % 5 instead of i === 0 for the boss.
RECURSIVE SpawnLoopBossEveryFifth(_, _, _, _)
SpawnLoopBossEveryFifth(s, rs, i, count) ==
    IF i >= count THEN s
    ELSE LET s1 == IF s.level % 5 = 0 /\ i % 5 = 0 THEN spawnEnemy(s, "boss")
                   ELSE spawnEnemy(s, WaveType(WaveDraw(rs, i)))
         IN  SpawnLoopBossEveryFifth(s1, rs, i + 1, count)

RECURSIVE SpawnLoop(_, _, _, _)
SpawnLoop(s, rs, i, count) ==
    IF i >= count THEN s
    ELSE LET s1 == IF s.level % 5 = 0 /\ i = 0 THEN spawnEnemy(s, "boss")
                   ELSE spawnEnemy(s, WaveType(WaveDraw(rs, i)))
         IN  SpawnLoop(s1, rs, i + 1, count)

spawnWave(s, rs) ==
    LET count == s.enemiesToSpawn + ((s.level * 12) \div 10)
    IN  SpawnLoop([s EXCEPT !.enemies = << >>], rs, 0, count)

spawnPickup(s, where, type, val) ==
    [s EXCEPT !.pickups = Append(@, [where |-> where, type |-> type, val |-> val])]

(***************************************************************************)
(* Initial state: the module-level initialisers and the init section.      *)
(***************************************************************************)
\* The page state with only the pistol owned.
InitStateLocked(rs) ==
    spawnWave(
      [ gameStarted |-> FALSE, gameOver |-> FALSE, score |-> 0, coins |-> 0,
        level |-> 1, enemiesToSpawn |-> 6,
        player |-> createPlayer, bullets |-> << >>, enemies |-> << >>,
        particles |-> << >>, pickups |-> << >>,
        weapons |-> [k \in Keys |-> [ammo |-> WeaponStats[k].maxAmmo,
                                     owned |-> (k = "pistol")]],
        currentWeaponKey |-> "pistol", lastShotAt |-> 0, reloading |-> FALSE,
        timers |-> << >>, mouseDown |-> FALSE, lastT |-> 0,
        pickupSpawnTimer |-> 0,
        pendingUpdate |-> 0, pendingDraw |-> 1, dueUpdate |-> 0, dueDraw |-> 0,
        now |-> Epoch, overSignals |-> 0, notice |-> "" ],
      rs)

InitState(rs) ==
    spawnWave(
      [ gameStarted |-> FALSE, gameOver |-> FALSE, score |-> 0, coins |-> 0,
        level |-> 1, enemiesToSpawn |-> 6,
        player |-> createPlayer, bullets |-> << >>, enemies |-> << >>,
        particles |-> << >>, pickups |-> << >>,
        weapons |-> [k \in Keys |-> [ammo |-> WeaponStats[k].maxAmmo, owned |-> TRUE]],
        currentWeaponKey |-> "pistol", lastShotAt |-> 0, reloading |-> FALSE,
        timers |-> << >>, mouseDown |-> FALSE, lastT |-> 0,
        pickupSpawnTimer |-> 0,
        pendingUpdate |-> 0, pendingDraw |-> 1, dueUpdate |-> 0, dueDraw |-> 0,
        now |-> Epoch, overSignals |-> 0, notice |-> "" ],
      rs)

\* The variables hold the state s.
Start(s) ==
    /\ gameStarted = s.gameStarted /\ gameOver = s.gameOver
    /\ score = s.score /\ coins = s.coins /\ level = s.level
    /\ enemiesToSpawn = s.enemiesToSpawn /\ player = s.player
    /\ bullets = s.bullets /\ enemies = s.enemies /\ pickups = s.pickups
    /\ particles = s.particles /\ notice = s.notice
    /\ weapons = s.weapons /\ currentWeaponKey = s.currentWeaponKey
    /\ lastShotAt = s.lastShotAt /\ reloading = s.reloading
    /\ timers = s.timers /\ mouseDown = s.mouseDown /\ lastT = s.lastT
    /\ pickupSpawnTimer = s.pickupSpawnTimer
    /\ pendingUpdate = s.pendingUpdate /\ pendingDraw = s.pendingDraw
    /\ dueUpdate = s.dueUpdate /\ dueDraw = s.dueDraw
    /\ now = s.now /\ overSignals = s.overSignals

Init == Start(InitState(0))

(***************************************************************************)
(* Explosion                                                               *)
(***************************************************************************)
\* One iteration of explode's loop: enemy i is within the blast radius iff
\* i \in blast; r is the Math.random() of the coin value.
ExplodeStep(s, blast, r, i) ==
    IF i > Len(s.enemies) \/ i \notin blast THEN s
    ELSE LET hp == s.enemies[i].hp - (3 + s.level)
             s1 == [s EXCEPT !.enemies[i].hp = hp]
         IN  IF hp <= 0
             THEN [spawnPickup(s1, "field", "coin", 3 + RandInt(r, 5))
                      EXCEPT !.enemies = RemoveAt(@, i)]
             ELSE s1

\* The loop of explode passing over the enemy that follows a removed one.
RECURSIVE ExplodeLoopSkips(_, _, _, _)
ExplodeLoopSkips(s, blast, r, i) ==
    IF i < 1 THEN s
    ELSE LET s1 == ExplodeStep(s, blast, r, i)
         IN  ExplodeLoopSkips(s1, blast, r,
                              IF Len(s1.enemies) < Len(s.enemies) THEN i - 2 ELSE i - 1)

RECURSIVE ExplodeLoop(_, _, _, _)
ExplodeLoop(s, blast, r, i) ==
    IF i < 1 THEN s
    ELSE ExplodeLoop(ExplodeStep(s, blast, r, i), blast, r, i - 1)

explode(s, blast, r) ==
    ExplodeLoop(spawnParticles(s, 40, rand(r, 400, 900)), blast, r, Len(s.enemies))

(***************************************************************************)
(* Update loop                                                             *)
(*                                                                         *)
(* A frame input f gives the outcome of the frame's geometry and random    *)
(* draws:                                                                  *)
(*   vx      held horizontal movement keys (-1, 0, 1)                      *)
(*   gone    indices of the bullets that hit a wall / left the arena       *)
(*   wall    TRUE: those bullets hit a wall; FALSE: they left the arena    *)
(*   blast   indices of the enemies within the radius of an explosion      *)
(*   contact indices of the enemies that reach the player                  *)
(*   hit     indices of the enemies that player bullets overlap            *)
(*   phit    indices of the bullets that overlap the player                *)
(*   collect indices of the field pickups within 20 units of the player    *)
(*   rs      the random stream of the frame                                *)
(* Indices are positions in the list at the start of the loop that reads   *)
(* them; every loop runs from the last index down, as in the source.       *)
(***************************************************************************)
\* Movement input, clamped to the arena.
MovePlayer(s, f, dt) ==
    [s EXCEPT !.player.x = clamp(@ + (IF dt > 0 THEN f.vx ELSE 0), 0 - Reach, Reach)]

\* update bullets: wall collisions and leaving the arena.
BulletStep(s, f, i) ==
    IF i > Len(s.bullets) \/ i \notin f.gone THEN s
    ELSE LET b == s.bullets[i]
             s1 == IF f.wall /\ b.rocket THEN explode(s, f.blast, random(f.rs)) ELSE s
         IN  [s1 EXCEPT !.bullets = RemoveAt(@, i)]

RECURSIVE BulletLoop(_, _, _)
BulletLoop(s, f, i) ==
    IF i < 1 THEN s ELSE BulletLoop(BulletStep(s, f, i), f, i - 1)

\* update enemies: spitter attack, collision with the player.
EnemyStep(s, f, i) ==
    IF i > Len(s.enemies) THEN s
    ELSE
    LET e == s.enemies[i]
        s1 == IF e.type = "spitter" /\ s.now - e.lastSpit > 1400
              THEN [s EXCEPT !.bullets = Append(@, [from |-> "enemy", dmg |-> 1, rocket |-> FALSE]),
                             !.enemies[i].lastSpit = s.now]
              ELSE s
    IN  IF i \notin f.contact THEN s1
        ELSE LET s2 == spawnBlood(
                           [s1 EXCEPT !.player.hp = @ - (IF e.type = "tank" THEN 12 ELSE 6)],
                           random(f.rs), 8)
                 s3 == IF e.type = "bomber" THEN explode(s2, f.blast, random(f.rs)) ELSE s2
                 s4 == [s3 EXCEPT !.enemies = RemoveAt(@, i)]
             IN  IF random(f.rs) < 50
                 THEN spawnPickup(s4, "player", "coin", 1 + RandInt(random(f.rs), 3))
                 ELSE s4

RECURSIVE EnemyLoop(_, _, _)
EnemyLoop(s, f, i) ==
    IF i < 1 THEN s ELSE EnemyLoop(EnemyStep(s, f, i), f, i - 1)

\* The last player bullet of the list (0 if none): the first one the inner
\* loop of "bullets hitting enemies" finds when every bullet overlaps.
RECURSIVE LastPlayerBullet(_, _)
LastPlayerBullet(bs, j) ==
    IF j < 1 THEN 0
    ELSE IF bs[j].from = "player" THEN j
    ELSE LastPlayerBullet(bs, j - 1)

\* The bullet hit without the removal of an enemy whose hp reached <= 0.
HitStepKeepsDead(s, f, i) ==
    LET j == LastPlayerBullet(s.bullets, Len(s.bullets)) IN
    IF i > Len(s.enemies) \/ i \notin f.hit \/ j = 0 THEN s
    ELSE spawnBlood([s EXCEPT !.enemies[i].hp = @ - s.bullets[j].dmg,
                              !.bullets = RemoveAt(@, j)],
                    random(f.rs), 4)

\* The bullet hit paying the tank's 8 coins for every enemy but the boss.
HitStepTankReward(s, f, i) ==
    LET j == LastPlayerBullet(s.bullets, Len(s.bullets)) IN
    IF i > Len(s.enemies) \/ i \notin f.hit \/ j = 0 THEN s
    ELSE
    LET e == s.enemies[i]
        hp == e.hp - s.bullets[j].dmg
        s1 == spawnBlood([s EXCEPT !.enemies[i].hp = hp, !.bullets = RemoveAt(@, j)],
                         random(f.rs), 4)
    IN  IF hp > 0 THEN s1
        ELSE LET coinGain == IF e.type = "boss" THEN 50 ELSE 8
                 s2 == [s1 EXCEPT !.coins = @ + coinGain,
                                  !.score = @ + (IF e.type = "boss" THEN 200 ELSE 10)]
                 s3 == spawnPickup(s2, "field", "coin", coinGain)
             IN  [s3 EXCEPT !.enemies = RemoveAt(@, i)]

\* bullets hitting enemies.
HitStep(s, f, i) ==
    LET j == LastPlayerBullet(s.bullets, Len(s.bullets)) IN
    IF i > Len(s.enemies) \/ i \notin f.hit \/ j = 0 THEN s
    ELSE
    LET e == s.enemies[i]
        hp == e.hp - s.bullets[j].dmg
        s1 == spawnBlood([s EXCEPT !.enemies[i].hp = hp, !.bullets = RemoveAt(@, j)],
                         random(f.rs), 4)
    IN  IF hp > 0 THEN s1
        ELSE LET coinGain == IF e.type = "boss" THEN 50
                             ELSE IF e.type = "tank" THEN 8
                             ELSE 3 + RandInt(random(f.rs), 3)
                 s2 == [s1 EXCEPT !.coins = @ + coinGain,
                                  !.score = @ + (IF e.type = "boss" THEN 200 ELSE 10)]
                 s3 == spawnPickup(s2, "field", "coin", coinGain)
                 s4 == IF e.type = "bomber" THEN explode(s3, f.blast, random(f.rs)) ELSE s3
             IN  [s4 EXCEPT !.enemies = RemoveAt(@, i)]

RECURSIVE HitLoop(_, _, _)
HitLoop(s, f, i) ==
    IF i < 1 THEN s ELSE HitLoop(HitStep(s, f, i), f, i - 1)

\* bullets hitting player (enemy projectiles).
PlayerHitStep(s, f, i) ==
    IF i > Len(s.bullets) THEN s
    ELSE IF s.bullets[i].from = "enemy" /\ i \in f.phit
         THEN spawnBlood([s EXCEPT !.player.hp = @ - 8, !.bullets = RemoveAt(@, i)],
                         random(f.rs), 6)
         ELSE s

RECURSIVE PlayerHitLoop(_, _, _)
PlayerHitLoop(s, f, i) ==
    IF i < 1 THEN s ELSE PlayerHitLoop(PlayerHitStep(s, f, i), f, i - 1)

\* update particles: age by dt (ms), remove the expired ones.
ParticleStep(s, dt, i) ==
    LET age == s.particles[i].age + dt IN
    IF age > s.particles[i].life
    THEN [s EXCEPT !.particles = RemoveAt(@, i)]
    ELSE [s EXCEPT !.particles[i].age = age]

RECURSIVE ParticleLoop(_, _, _)
ParticleLoop(s, dt, i) ==
    IF i < 1 THEN s ELSE ParticleLoop(ParticleStep(s, dt, i), dt, i - 1)

\* The pickup loop with a coin pickup charged instead of credited.
PickupStepCharges(s, f, i) ==
    IF i > Len(s.pickups) THEN s
    ELSE LET pk == s.pickups[i] IN
         IF pk.where # "player" /\ i \notin f.collect THEN s
         ELSE [s EXCEPT !.coins = @ - pk.val, !.pickups = RemoveAt(@, i)]

\* pickups: a pickup dropped at the player's position is within reach.
PickupStep(s, f, i) ==
    IF i > Len(s.pickups) THEN s
    ELSE LET pk == s.pickups[i]
             k == s.currentWeaponKey
         IN  IF pk.where # "player" /\ i \notin f.collect THEN s
             ELSE LET s1 == IF pk.type = "coin"
                            THEN [s EXCEPT !.coins = @ + pk.val] ELSE s
                      s2 == IF pk.type = "ammo"
                            THEN [s1 EXCEPT !.weapons[k].ammo =
                                     Min(WeaponStats[k].maxAmmo, @ + 8)]
                            ELSE s1
                  IN  [s2 EXCEPT !.pickups = RemoveAt(@, i)]

RECURSIVE PickupLoop(_, _, _)
PickupLoop(s, f, i) ==
    IF i < 1 THEN s ELSE PickupLoop(PickupStep(s, f, i), f, i - 1)

\* spawn periodic pickups (the timer is kept in ms).
PeriodicPickup(s, f, dt) ==
    LET s1 == [s EXCEPT !.pickupSpawnTimer = @ + dt] IN
    IF s1.pickupSpawnTimer > 6000
    THEN LET s2 == IF random(f.rs) < 60
                   THEN spawnPickup(s1, "field", "coin", 1 + RandInt(random(f.rs), 3))
                   ELSE s1
         IN  [s2 EXCEPT !.pickupSpawnTimer = 0]
    ELSE s1

\* The level-up without its enemiesToSpawn += 2.
LevelUpSameQuota(s, f) ==
    IF Len(s.enemies) = 0 /\ s.gameStarted /\ ~s.gameOver
    THEN LET k == s.currentWeaponKey
             s1 == spawnWave([s EXCEPT !.level = @ + 1], f.rs)
         IN  [s1 EXCEPT !.coins = @ + 5,
                        !.weapons[k].ammo =
                            Min(WeaponStats[k].maxAmmo,
                                @ + ((WeaponStats[k].maxAmmo * 2) \div 10))]
    ELSE s

\* The level progression without its spawnWave().
LevelUpNoWave(s, f) ==
    IF Len(s.enemies) = 0 /\ s.gameStarted /\ ~s.gameOver
    THEN LET k == s.currentWeaponKey
             s1 == [s EXCEPT !.level = @ + 1, !.enemiesToSpawn = @ + 2]
         IN  [s1 EXCEPT !.coins = @ + 5,
                        !.weapons[k].ammo =
                            Min(WeaponStats[k].maxAmmo,
                                @ + ((WeaponStats[k].maxAmmo * 2) \div 10))]
    ELSE s

\* The level-up refill without its Math.min(cw.maxAmmo, ...).
LevelUpUncapped(s, f) ==
    IF Len(s.enemies) = 0 /\ s.gameStarted /\ ~s.gameOver
    THEN LET k == s.currentWeaponKey
             s1 == spawnWave([s EXCEPT !.level = @ + 1, !.enemiesToSpawn = @ + 2], f.rs)
         IN  [s1 EXCEPT !.coins = @ + 5,
                        !.weapons[k].ammo = @ + ((WeaponStats[k].maxAmmo * 2) \div 10)]
    ELSE s

\* level progression: if all enemies dead -> next level.
LevelUp(s, f) ==
    IF Len(s.enemies) = 0 /\ s.gameStarted /\ ~s.gameOver
    THEN LET k == s.currentWeaponKey
             s1 == spawnWave([s EXCEPT !.level = @ + 1, !.enemiesToSpawn = @ + 2], f.rs)
         IN  [s1 EXCEPT !.coins = @ + 5,
                        !.weapons[k].ammo =
                            Min(WeaponStats[k].maxAmmo,
                                @ + ((WeaponStats[k].maxAmmo * 2) \div 10))]
    ELSE s

\* The game over check without its !gameOver condition.
GameOverCheckRepeated(s) ==
    IF s.player.hp <= 0
    THEN [s EXCEPT !.gameOver = TRUE, !.overSignals = @ + 1]
    ELSE s

\* game over check.
GameOverCheck(s) ==
    IF s.player.hp <= 0 /\ ~s.gameOver
    THEN [s EXCEPT !.gameOver = TRUE, !.overSignals = @ + 1]
    ELSE s

\* requestAnimationFrame(update) at the end of update: one callback of the
\* frame has run and registered itself for the next frame.
Reschedule(s) == [s EXCEPT !.dueUpdate = @ - 1, !.pendingUpdate = @ + 1]

update(s, f) ==
    LET ts == s.now - Epoch
        t0 == IF s.lastT = 0 THEN ts ELSE s.lastT
        dt == Min(50, ts - t0)
        s0 == [s EXCEPT !.lastT = ts]
    IN  IF ~s.gameStarted THEN Reschedule(s0)
        ELSE
        LET s1 == MovePlayer(s0, f, dt)
            s2 == IF s1.mouseDown THEN shootAtMouse(s1) ELSE s1
            s3 == BulletLoop(s2, f, Len(s2.bullets))
            s4 == EnemyLoop(s3, f, Len(s3.enemies))
            s5 == HitLoop(s4, f, Len(s4.enemies))
            s6 == PlayerHitLoop(s5, f, Len(s5.bullets))
            s6p == ParticleLoop(s6, dt, Len(s6.particles))
            s7 == PickupLoop(s6p, f, Len(s6p.pickups))
            s8 == PeriodicPickup(s7, f, dt)
            s9 == LevelUp(s8, f)
        IN  Reschedule(GameOverCheck(s9))

(***************************************************************************)
(* Start / restart                                                         *)
(***************************************************************************)
startGame(s, rs) ==
    LET s1 == [s EXCEPT !.gameStarted = TRUE, !.gameOver = FALSE, !.score = 0,
                        !.coins = 0, !.level = 1, !.enemiesToSpawn = 6,
                        !.player = createPlayer,
                        !.weapons["pistol"].owned = TRUE,
                        !.overSignals = 0]
    IN  [spawnWave(s1, rs) EXCEPT !.pendingUpdate = @ + 1, !.pendingDraw = @ + 1]

\* restartGame leaving the particle list as it is.
restartGameKeepsParticles(s, rs) ==
    LET s1 == [s EXCEPT !.gameOver = FALSE, !.player.hp = s.player.maxHp,
                        !.score = 0, !.coins = 0, !.level = 1,
                        !.enemiesToSpawn = 6,
                        !.bullets = << >>, !.enemies = << >>, !.pickups = << >>,
                        !.overSignals = 0]
    IN  [spawnWave(s1, rs) EXCEPT !.pendingUpdate = @ + 1]

restartGame(s, rs) ==
    LET s1 == [s EXCEPT !.gameOver = FALSE, !.player.hp = s.player.maxHp,
                        !.score = 0, !.coins = 0, !.level = 1,
                        !.enemiesToSpawn = 6,
                        !.bullets = << >>, !.enemies = << >>,
                        !.particles = << >>, !.pickups = << >>,
                        !.overSignals = 0]
    IN  [spawnWave(s1, rs) EXCEPT !.pendingUpdate = @ + 1]

\* keydown: weapon switching 1..6, reload on "r", start / restart on Enter.
keydown(s, key, rs) ==
    LET s1 == IF key \in Digits THEN [s EXCEPT !.currentWeaponKey = HotKeys[key]] ELSE s
        s2 == IF key = "r" THEN startReload(s1) ELSE s1
    IN  IF key = "Enter"
        THEN IF ~s2.gameStarted THEN startGame(s2, rs)
             ELSE IF s2.gameOver THEN restartGame(s2, rs)
             ELSE s2
        ELSE s2

mousedown(s) == shootAtMouse([s EXCEPT !.mouseDown = TRUE])
mouseup(s) == [s EXCEPT !.mouseDown = FALSE]

\* draw only reads the state and registers itself for the next frame.
draw(s) == [s EXCEPT !.dueDraw = @ - 1, !.pendingDraw = @ + 1]

(***************************************************************************)
(* Shop                                                                    *)
(***************************************************************************)
\* shopItems: the weapons on sale (their prices repeat the catalog's).
ShopKeys == {"smg", "machine", "shotgun", "sniper", "rocket"}
ShopPrice == [ smg |-> 50, machine |-> 120, shotgun |-> 100, sniper |-> 150,
               rocket |-> 250 ]

\* renderShop: the Buy button of an item is disabled when the weapon is owned.
BuyEnabled(s, key) == ~s.weapons[key].owned

\* The click handler debiting although the balance is short.
purchaseOnCredit(s, key) ==
    [s EXCEPT !.coins = @ - ShopPrice[key],
              !.weapons[key].owned = TRUE,
              !.notice = "purchased"]

\* The click handler of the item's button; notice is the text it alerts.
purchase(s, key) ==
    IF s.coins >= ShopPrice[key]
    THEN [s EXCEPT !.coins = @ - ShopPrice[key],
                   !.weapons[key].owned = TRUE,
                   !.notice = "purchased"]
    ELSE [s EXCEPT !.notice = "Not enough coins"]

\* A click on the button of a shop item: a disabled button dispatches no
\* click event, an enabled one runs the handler.
shopClick(s, key) == IF BuyEnabled(s, key) THEN purchase(s, key) ELSE s

(***************************************************************************)
(* Frame inputs the model explores                                         *)
(***************************************************************************)
\* Of n listed entities: the last one, or all of them.
Picks(n) == IF n = 0 THEN {} ELSE {{n}, 1..n}

Quiet == [vx |-> 0, gone |-> {}, wall |-> FALSE, blast |-> {}, contact |-> {},
          hit |-> {}, phit |-> {}, collect |-> {}, rs |-> 0]

\* Frames of the arsenal specification: nothing happens, or the whole wave
\* reaches the player (the next wave is drawn from stream rs).
ArsenalFrames ==
    {Quiet} \cup { [Quiet EXCEPT !.contact = 1..Len(enemies), !.rs = r] : r \in Seeds }

\* Frames of the combat specification, one kind of event per frame: the
\* player moves, enemies reach the player, player bullets hit enemies,
\* bullets hit a wall (rockets explode) or leave the arena, enemy bullets hit
\* the player, pickups are collected.
Moves == {0, 1}
CombatFrames ==
    LET ne == Len(enemies)
        nb == Len(bullets)
        np == Len(pickups)
    IN  { [Quiet EXCEPT !.vx = v] : v \in Moves }
        \cup { [Quiet EXCEPT !.contact = c, !.rs = r] : c \in Picks(ne), r \in Seeds }
        \cup { [Quiet EXCEPT !.hit = h, !.rs = r] : h \in Picks(ne), r \in Seeds }
        \cup { [Quiet EXCEPT !.gone = g, !.wall = TRUE, !.blast = b] :
                 g \in Picks(nb + 1), b \in Picks(ne) }
        \cup { [Quiet EXCEPT !.gone = 1..(nb + 1)] }
        \cup { [Quiet EXCEPT !.phit = 1..(nb + 3)] }
        \cup { [Quiet EXCEPT !.collect = 1..np] }

(***************************************************************************)
(* Actions: one per callback the browser can run.  Their parameters are    *)
(* the bounds of the specification that uses them: the time of the last    *)
(* frame, the frames and the keys explored.                                *)
(***************************************************************************)
\* No animation-frame callback is waiting to run in the current frame.
Idle == dueUpdate = 0 /\ dueDraw = 0

\* An animation frame begins: its callbacks are the ones registered so far.
Tick(last) ==
    /\ Idle /\ now + FrameMs <= last
    /\ Commit([G EXCEPT !.now = @ + FrameMs, !.dueUpdate = G.pendingUpdate,
                        !.pendingUpdate = 0, !.dueDraw = G.pendingDraw,
                        !.pendingDraw = 0])

Update(frames) ==
    /\ dueUpdate > 0 /\ dueDraw = 0
    /\ \E f \in frames : Commit(update(G, f))

Draw == dueDraw > 0 /\ Commit(draw(G))

\* Input events arrive between frames, up to the time of the last frame.
Input(last) == Idle /\ now <= last

Event(s) == Bounded(s) /\ Commit(s)

KeyDigit(last, keys) == Input(last) /\ \E k \in keys : Event(keydown(G, k, 0))
KeyR(last) == Input(last) /\ Event(keydown(G, "r", 0))
KeyEnter(last) == Input(last) /\ \E rs \in Seeds : Event(keydown(G, "Enter", rs))
StartClick(last) == Input(last) /\ \E rs \in Seeds : Event(startGame(G, rs))
MouseDown(last) == Input(last) /\ Event(mousedown(G))
MouseUp(last) == Input(last) /\ mouseDown /\ Event(mouseup(G))
ShopClick(last) == Input(last) /\ \E key \in ShopKeys : Event(shopClick(G, key))

\* A reload timer fires once its delay has elapsed (after the last frame:
\* once the remaining time has passed without frames).
TimerFire(last) ==
    /\ Idle
    /\ \E i \in 1..Len(timers) :
         /\ now >= timers[i].due \/ now + FrameMs > last
         /\ Commit(reloadDone(G, i))

(***************************************************************************)
(* Arsenal specification: every input event, few kinds of frames.          *)
(***************************************************************************)
\* The digit keys pressed: one weapon of each projectile type.
SwitchKeys == {"1", "4", "6"}

Next ==
    \/ Tick(MaxNow) \/ Update(ArsenalFrames) \/ Draw
    \/ KeyDigit(MaxNow, SwitchKeys) \/ KeyR(MaxNow) \/ KeyEnter(MaxNow)
    \/ StartClick(MaxNow) \/ MouseDown(MaxNow) \/ MouseUp(MaxNow)
    \/ ShopClick(MaxNow) \/ TimerFire(MaxNow)

Spec == Init /\ [][Next]_vars

\* The browser runs every due animation-frame callback and every due timer.
\* An update callback that runs is the step that consumes a due callback;
\* update() has no blocking path, so that step is enabled whenever one is due.
UpdateRuns == dueUpdate > 0 /\ dueDraw = 0 /\ dueUpdate' = dueUpdate - 1
SpecLive ==
    /\ Spec
    /\ WF_vars(Tick(MaxNow)) /\ WF_vars(Draw) /\ WF_dueUpdate(UpdateRuns)
    /\ WF_vars(TimerFire(MaxNow))

(***************************************************************************)
(* Combat specification: every kind of frame, few input events.            *)
(***************************************************************************)
CombatKeys == {"6"}

NextCombat ==
    \/ Tick(MaxNowCombat) \/ Update(CombatFrames) \/ Draw
    \/ KeyDigit(Epoch, CombatKeys) \/ KeyEnter(MaxNowCombat)
    \/ MouseDown(MaxNowCombat) \/ MouseUp(MaxNowCombat)
    \/ TimerFire(MaxNowCombat)

SpecCombat == Init /\ [][NextCombat]_vars

(***************************************************************************)
(* Shop specification: the click handler of the shop's buttons, as a       *)
(* function of the balance and of the catalog.  The catalog of the program *)
(* has every weapon owned, which leaves every button disabled; the handler *)
(* is applied here under each catalog that enables some of them.           *)
(***************************************************************************)
Purses == 0..MaxCoins

InitShop ==
    \E c \in Purses, unowned \in SUBSET ShopKeys :
        Start([startGame(InitState(0), 0) EXCEPT
                  !.coins = c,
                  !.weapons = [k \in Keys |->
                                 [@[k] EXCEPT !.owned = k \notin unowned]]])

BuyClick == \E key \in ShopKeys : BuyEnabled(G, key) /\ Commit(purchase(G, key))

NextShop == BuyClick

SpecShop == InitShop /\ [][NextShop]_vars

(***************************************************************************)
(* Wave specification: spawnWave, the "bullets hitting enemies" loop of    *)
(* update and explode as functions of the level, the wave and the bullets  *)
(* in flight.  It starts from a running game that has reached level L      *)
(* (quota 6 + 2 (L - 1)) with a fresh wave, and applies the functions to   *)
(* it, so that the waves with a boss (level 5) are covered.           *)
(***************************************************************************)
WaveLevels == 1..MaxWaveLevel
WaveSeeds == 0..MaxWaveSeed
WaveWeapons == {"pistol", "sniper"}

InitWave ==
    \E L \in WaveLevels, rs \in WaveSeeds, k \in WaveWeapons :
        Start(spawnWave([startGame(InitState(0), 0) EXCEPT
                            !.level = L, !.enemiesToSpawn = 6 + 2 * (L - 1),
                            !.currentWeaponKey = k],
                        rs))

\* The level progression of update finds the wave cleared.
WaveCleared ==
    /\ enemies = << >> /\ level <= MaxWaveLevel
    /\ \E rs \in WaveSeeds : Commit(LevelUp(G, [Quiet EXCEPT !.rs = rs]))

\* The player fires once the fire interval of the weapon has elapsed and
\* the previous bullet has hit.
Shot ==
    LET k == currentWeaponKey IN
    /\ bullets = << >> /\ ~reloading
    /\ weapons[k].ammo > WeaponStats[k].maxAmmo - MaxShots
    /\ Commit(shootAtMouse([G EXCEPT !.now = @ + WeaponStats[k].fireRate]))

\* The bullets in flight reach the last enemy, or every enemy.
BulletsHit ==
    /\ bullets # << >>
    /\ \E h \in Picks(Len(enemies)), rs \in Seeds :
          Commit(HitLoop(G, [Quiet EXCEPT !.hit = h, !.rs = rs], Len(enemies)))

\* The enemies an explosion reaches: the last one, every one, every second
\* one, or none.
Blasts(n) == Picks(n) \cup {{ i \in 1..n : i % 2 = 0 }, {}}

Explosion ==
    /\ Cardinality({ i \in 1..Len(particles) : particles[i].n = 40 }) < MaxBlasts
    /\ \E b \in Blasts(Len(enemies)), rs \in Seeds : Commit(explode(G, b, random(rs)))

NextWave == WaveCleared \/ Shot \/ BulletsHit \/ Explosion

SpecWave == InitWave /\ [][NextWave]_vars

(***************************************************************************)
(* Properties                                                              *)
(***************************************************************************)
maxAmmo(k) == WeaponStats[k].maxAmmo
PlayerBullets == { j \in 1..Len(bullets) : bullets[j].from = "player" }
\* The weapons with a reload timer pending.
Reloading(k) == \E i \in 1..Len(timers) : timers[i].w = k

\* C1: in every reachable state every weapon of the catalog has
\* 0 <= ammo <= maxAmmo.
C1_AmmoInRange ==
    \A k \in Keys : weapons[k].ammo >= 0 /\ weapons[k].ammo <= maxAmmo(k)

\* A shot was fired, a reload is under way and a level-up has refilled ammo.
C1_Witness ==
    /\ level > 1 /\ reloading
    /\ \E k \in Keys : weapons[k].ammo > 0 /\ weapons[k].ammo < maxAmmo(k)

\* C2: a fire request succeeds (sets lastShotAt, takes ammo, adds bullets)
\* only if the game is started and not over, the current weapon is owned, no
\* reload is in progress, ammo > 0 and the fire interval has elapsed; the
\* request then takes exactly 1 ammo, leaving ammo >= 0; while reloading a
\* request changes nothing, and no step adds a player bullet while reloading.
C2_Request ==
    LET s == shootAtMouse(G)
        k == currentWeaponKey
        ready == /\ gameStarted /\ ~gameOver /\ weapons[k].owned /\ ~reloading
                 /\ weapons[k].ammo > 0
                 /\ now - lastShotAt >= WeaponStats[k].fireRate
    IN  /\ (s.lastShotAt # lastShotAt \/ s.weapons # weapons \/ s.bullets # bullets)
             => ready
        /\ ready => /\ s.weapons[k].ammo = weapons[k].ammo - 1
                    /\ s.weapons[k].ammo >= 0
                    /\ \A o \in Keys \ {k} : s.weapons[o] = weapons[o]
                    /\ Len(s.bullets) > Len(bullets)
        /\ reloading => s = G

C2_Step ==
    LET k == currentWeaponKey IN
    /\ lastShotAt' # lastShotAt =>
         /\ gameStarted /\ ~gameOver /\ weapons[k].owned /\ ~reloading
         /\ weapons[k].ammo > 0
         /\ now' - lastShotAt >= WeaponStats[k].fireRate
         /\ level' = level => weapons'[k].ammo = weapons[k].ammo - 1
    /\ Cardinality(PlayerBullets') > Cardinality(PlayerBullets) =>
         lastShotAt' # lastShotAt /\ ~reloading

C2_FireOnlyWhenReady == [](C2_Request) /\ [][C2_Step]_vars

\* A shot has just been fired: one round is gone and its bullet is in flight.
C2_Witness ==
    /\ lastShotAt = now /\ ~reloading /\ PlayerBullets # {}
    /\ weapons[currentWeaponKey].ammo = maxAmmo(currentWeaponKey) - 1

\* C3 (as claimed): from the start of a reload of w until its timer fires,
\* w's ammo does not change, and when the timer fires it becomes maxAmmo.
C3_Step ==
    \A i \in 1..Len(timers) :
        LET t == timers[i] IN
        IF \E j \in 1..Len(timers') : timers'[j] = t
        THEN weapons'[t.w].ammo = weapons[t.w].ammo
        ELSE weapons'[t.w].ammo = maxAmmo(t.w)

C3_AmmoFrozenWhileReloading == [][C3_Step]_vars

\* C4: a successful fire that takes the current weapon's last round starts a
\* reload of that weapon in the same call; while its timer is pending every
\* fire request is rejected (no ammo change, no bullet), and the timer does
\* not fire before the weapon's reload duration has elapsed.
C4_Request == timers # << >> => shootAtMouse(G) = G

C4_Step ==
    LET k == currentWeaponKey IN
    /\ (lastShotAt' # lastShotAt /\ weapons[k].ammo = 1) =>
          /\ reloading'
          /\ \E i \in 1..Len(timers') :
                timers'[i] = [w |-> k, due |-> now' + WeaponStats[k].reload]
    /\ timers # << >> =>
          /\ lastShotAt' = lastShotAt
          /\ Cardinality(PlayerBullets') <= Cardinality(PlayerBullets)
    /\ \A i \in 1..Len(timers) :
          (\A j \in 1..Len(timers') : timers'[j] # timers[i]) => now' >= timers[i].due

C4_EmptyStartsReload == [](C4_Request) /\ [][C4_Step]_vars

\* The rocket scenario: two rockets fired, the launcher is empty, its reload
\* is pending and 2200 ms have not elapsed since the second shot.
C4_Witness ==
    /\ weapons["rocket"].ammo = 0 /\ reloading
    /\ timers = << [w |-> "rocket", due |-> lastShotAt + 2200] >>
    /\ now < lastShotAt + 2200
    /\ Cardinality({ j \in 1..Len(bullets) : bullets[j].rocket }) = 2

\* C5: a started reload of w always completes (eventually w.ammo = maxAmmo
\* and reloading is false); no step cancels a pending reload or refills
\* another weapon than the one selected when the reload started.
C5_Live ==
    \A k \in Keys : Reloading(k) ~> (weapons[k].ammo = maxAmmo(k) /\ ~reloading)

C5_Step ==
    /\ \A i \in 1..Len(timers) :
          LET t == timers[i] IN
          \/ \E j \in 1..Len(timers') : timers'[j] = t
          \/ /\ weapons'[t.w].ammo = maxAmmo(t.w) /\ ~reloading'
             /\ \A o \in Keys \ {t.w} : weapons'[o] = weapons[o]
    /\ Len(timers') > Len(timers) =>
          timers'[Len(timers')].w = currentWeaponKey

C5_ReloadCompletes == C5_Live /\ [][C5_Step]_vars

\* A reload started by a weapon that had fired has completed after the
\* rocket launcher was selected: every weapon is full and the bullet of the
\* other weapon is still in flight.
C5_Witness ==
    /\ level = 1 /\ ~reloading /\ timers = << >> /\ lastShotAt > 0
    /\ currentWeaponKey = "rocket"
    /\ \A k \in Keys : weapons[k].ammo = maxAmmo(k)
    /\ \E j \in PlayerBullets : ~bullets[j].rocket

\* C6: within one run game-over is signalled exactly once: gameOver is set
\* by the step in which player health is first <= 0, that step signals it,
\* later steps before a restart leave gameOver true and signal nothing, and
\* gameOver is never set while player health > 0.
C6_Inv ==
    /\ gameOver <=> player.hp <= 0
    /\ overSignals = IF gameOver THEN 1 ELSE 0

C6_Step ==
    /\ (~gameOver /\ gameOver') =>
          /\ player.hp > 0 /\ player'.hp <= 0
          /\ overSignals' = overSignals + 1
    /\ (gameOver /\ gameOver') => overSignals' = overSignals

C6_GameOverOnce == [](C6_Inv) /\ [][C6_Step]_vars

\* An update step ran after the game was over: it removed the last enemies
\* of the wave, which no level-up replaces once the game is over.
C6_Witness == gameOver /\ overSignals = 1 /\ enemies = << >> /\ player.hp < 0

\* C7 (as claimed): from the step that sets gameOver until a restart, every
\* step leaves score, currency, level, the player and the enemy, bullet and
\* pickup lists unchanged.
C7_Step ==
    (gameOver /\ gameOver') =>
        UNCHANGED <<score, coins, level, player, enemies, bullets, pickups>>

C7_GameOverHalts == [][C7_Step]_vars

\* C8 (as claimed): in every reachable state 0 <= hp <= maxHp.
C8_HealthInRange == player.hp >= 0 /\ player.hp <= player.maxHp

\* C9: after every step every enemy of the list has hp > 0; a bullet hit
\* lowers the hit enemy's hp by exactly the bullet's damage, and an enemy
\* whose hp reaches <= 0 leaves the list in the same step (the step that
\* scores a kill ends with fewer enemies unless a new wave was spawned).
C9_Alive == \A i \in 1..Len(enemies) : enemies[i].hp > 0

C9_Hit ==
    \A i \in 1..Len(enemies) :
        LET j == LastPlayerBullet(bullets, Len(bullets))
            s == HitStep(G, [Quiet EXCEPT !.hit = {i}], i)
        IN  j # 0 =>
              IF enemies[i].hp - bullets[j].dmg > 0
              THEN /\ Len(s.enemies) = Len(enemies)
                   /\ s.enemies[i].hp = enemies[i].hp - bullets[j].dmg
                   /\ \A o \in 1..Len(enemies) : o # i => s.enemies[o] = enemies[o]
              ELSE s.enemies = RemoveAt(enemies, i)

C9_Step ==
    (score' > score /\ level' = level) => Len(enemies') < Len(enemies)

C9_NoDeadEnemy == [](C9_Alive /\ C9_Hit) /\ [][C9_Step]_vars

\* A tank has survived a hit and another enemy was killed and removed.
C9_Witness ==
    /\ score > 0
    /\ \E i \in 1..Len(enemies) : enemies[i].type = "tank" /\ enemies[i].hp < 4

\* C10: within one run neither score nor the currency balance decreases:
\* the only steps that lower either are start and restart (the steps that
\* register one more update callback without running one).
C10_Step ==
    (score' < score \/ coins' < coins) =>
        pendingUpdate' + dueUpdate' > pendingUpdate + dueUpdate

C10_ScoreCoinsMonotone == [][C10_Step]_vars

\* Kills and collected coins have raised both values within the run.
C10_Witness == score >= 10 /\ coins >= 8 /\ pickups = << >> /\ level = 1

\* C11: a purchase request with coins < price leaves the balance and every
\* owned flag unchanged and reports the rejection; one with coins >= price
\* debits exactly the price, sets that weapon's owned flag and nothing else.
C11_Request ==
    \A key \in ShopKeys :
        LET s == purchase(G, key) IN
        IF coins < ShopPrice[key]
        THEN /\ s.coins = coins /\ s.weapons = weapons
             /\ s.notice = "Not enough coins"
        ELSE /\ s.coins = coins - ShopPrice[key] /\ s.coins >= 0
             /\ s.weapons = [weapons EXCEPT ![key].owned = TRUE]
             /\ s.notice = "purchased"

C11_Step ==
    (coins' # coins \/ weapons' # weapons) =>
        \E key \in ShopKeys :
            /\ coins >= ShopPrice[key] /\ coins' = coins - ShopPrice[key]
            /\ ~weapons[key].owned
            /\ weapons' = [weapons EXCEPT ![key].owned = TRUE]
            /\ notice' = "purchased"

C12_Fresh(s, rs) ==
    /\ s.bullets = << >> /\ s.particles = << >> /\ s.pickups = << >>
    /\ Len(s.enemies) = 7 /\ s.enemies = InitState(rs).enemies
    /\ s.score = 0 /\ s.coins = 0 /\ s.level = 1 /\ s.enemiesToSpawn = 6
    /\ s.player.hp = s.player.maxHp /\ s.player.maxHp = 100
    /\ ~s.gameOver

C12_Request ==
    gameOver => \A rs \in Seeds : C12_Fresh(keydown(G, "Enter", rs), rs)

C12_Step ==
    (gameOver /\ ~gameOver') =>
        /\ bullets' = << >> /\ particles' = << >> /\ pickups' = << >>
        /\ \E rs \in Seeds : enemies' = InitState(rs).enemies
        /\ Len(enemies') = 7
        /\ score' = 0 /\ coins' = 0 /\ level' = 1 /\ enemiesToSpawn' = 6
        /\ player'.hp = player'.maxHp

C12_RestartResets == [](C12_Request) /\ [][C12_Step]_vars

\* The game was restarted after a game over (a second update callback is
\* registered) and nothing has happened since.
C12_Witness ==
    /\ gameStarted /\ ~gameOver /\ pendingUpdate + dueUpdate = 2
    /\ lastT > 0 /\ score = 0 /\ coins = 0 /\ level = 1
    /\ bullets = << >> /\ particles = << >> /\ Len(enemies) = 7

\* C13: spawnWave replaces the enemy list with exactly quota +
\* floor(level * 1.2) enemies; at a level that is a multiple of 5 the first
\* one is a boss with hp 20 + 4 * level and no other one is a boss; at any
\* other level the wave has no boss.
C13_Request ==
    \A rs \in WaveSeeds :
        LET s == spawnWave(G, rs)
            n == Len(s.enemies)
        IN  /\ 10 * n <= 10 * enemiesToSpawn + 12 * level
            /\ 10 * n > 10 * enemiesToSpawn + 12 * level - 10
            /\ s = [G EXCEPT !.enemies = s.enemies]
            /\ s.enemies = spawnWave([G EXCEPT !.enemies = << >>], rs).enemies
            /\ \A i \in 1..n : s.enemies[i].hp > 0 /\ s.enemies[i].lastSpit = 0
            /\ IF level % 5 = 0
               THEN /\ s.enemies[1] = [type |-> "boss", hp |-> 20 + 4 * level,
                                       lastSpit |-> 0]
                    /\ \A i \in 2..n : s.enemies[i].type # "boss"
               ELSE \A i \in 1..n : s.enemies[i].type # "boss"

C13_Step ==
    Len(enemies') > Len(enemies) =>
        /\ Len(enemies') = enemiesToSpawn' + (level' * 12) \div 10
        /\ (level' % 5 = 0) = (enemies'[1].type = "boss")
        /\ \A i \in 2..Len(enemies') : enemies'[i].type # "boss"

C13_SpawnWave == [](C13_Request) /\ [][C13_Step]_vars

\* The wave of level 5, spawned by the level-up from level 4: 14 + 6
\* enemies, the first one a boss with hp 40.
C13_Witness ==
    /\ level = 5 /\ enemiesToSpawn = 14 /\ Len(enemies) = 20 /\ coins >= 5
    /\ enemies[1].type = "boss" /\ enemies[1].hp = 40
    /\ \A i \in 2..20 : enemies[i].type # "boss"

\* C14: a player bullet's hit that takes an enemy to hp <= 0 raises, in that
\* step, coins by 50 (boss), 8 (tank) or 3..5 (other) and score by 200
\* (boss) or 10 (other), adds exactly one coin pickup and removes the enemy;
\* a hit that leaves hp > 0 changes neither score nor coins.
C14_Gain(type) ==
    IF type = "boss" THEN {50} ELSE IF type = "tank" THEN {8} ELSE 3..5

C14_Request ==
    \A i \in 1..Len(enemies), rs \in Seeds :
        LET j == LastPlayerBullet(bullets, Len(bullets))
            e == enemies[i]
            s == HitStep(G, [Quiet EXCEPT !.hit = {i}, !.rs = rs], i)
        IN  j # 0 =>
              IF e.hp - bullets[j].dmg <= 0
              THEN /\ s.coins - coins \in C14_Gain(e.type)
                   /\ s.score - score = IF e.type = "boss" THEN 200 ELSE 10
                   /\ s.pickups = Append(pickups, [where |-> "field", type |-> "coin",
                                                   val |-> s.coins - coins])
                   /\ s.enemies = RemoveAt(enemies, i)
              ELSE /\ s.coins = coins /\ s.score = score /\ s.pickups = pickups
                   /\ Len(s.enemies) = Len(enemies)

C14_Step ==
    level' = level =>
        /\ score' # score =>
              /\ Len(enemies') = Len(enemies) - 1
              /\ Len(bullets') = Len(bullets) - 1
              /\ Len(pickups') = Len(pickups) + 1
              /\ pickups'[Len(pickups')].val = coins' - coins
              /\ \E i \in 1..Len(enemies) :
                    /\ enemies' = RemoveAt(enemies, i)
                    /\ coins' - coins \in C14_Gain(enemies[i].type)
                    /\ score' - score = IF enemies[i].type = "boss" THEN 200 ELSE 10
        /\ score' = score => coins' = coins

C14_KillReward == [](C14_Request) /\ [][C14_Step]_vars

\* The boss of level 5 was the only enemy killed by a bullet, and the wave
\* is cleared.
C14_Witness ==
    /\ level = 5 /\ score = 200 /\ coins = 50 /\ enemies = << >>
    /\ pickups[Len(pickups)] = [where |-> "field", type |-> "coin", val |-> 50]

\* C15 (as claimed): after any sequence of page init, start, game-over and
\* restart events at most one update callback chain and at most one draw
\* callback chain is pending, so that each frame runs one update and one draw.
C15_OneChainEach ==
    /\ pendingUpdate + dueUpdate <= 1
    /\ pendingDraw + dueDraw <= 1

\* C16: the update step that finds the enemy list empty while the game is
\* started and not over performs exactly one level-up: level + 1, quota + 2,
\* a new wave of quota + floor(level * 1.2) enemies (new values), coins + 5
\* and the active weapon's ammo min(maxAmmo, ammo + floor(0.2 * maxAmmo));
\* an update step that finds enemies leaves level and quota unchanged.
C16_Refill(k, a) == Min(maxAmmo(k), a + (2 * maxAmmo(k)) \div 10)

C16_Request ==
    (gameStarted /\ ~gameOver) =>
        \A rs \in Seeds :
            LET k == currentWeaponKey
                s == LevelUp([G EXCEPT !.enemies = << >>], [Quiet EXCEPT !.rs = rs])
                same == LevelUp(G, [Quiet EXCEPT !.rs = rs])
            IN  /\ s.level = level + 1 /\ s.enemiesToSpawn = enemiesToSpawn + 2
                /\ Len(s.enemies) = s.enemiesToSpawn + (s.level * 12) \div 10
                /\ s.coins = coins + 5
                /\ s.weapons = [weapons EXCEPT ![k].ammo = C16_Refill(k, @)]
                /\ enemies # << >> => same = G

C16_Step ==
    LET k == currentWeaponKey
        a == weapons[k].ammo - (IF lastShotAt' # lastShotAt THEN 1 ELSE 0)
    IN  dueUpdate' = dueUpdate - 1 =>
          /\ level' \in {level, level + 1}
          /\ level' = level + 1 =>
                /\ gameStarted /\ ~gameOver
                /\ enemiesToSpawn' = enemiesToSpawn + 2
                /\ Len(enemies') = enemiesToSpawn' + (level' * 12) \div 10
                /\ coins' >= coins + 5
                /\ weapons'[k].ammo = C16_Refill(k, a)
          /\ level' = level =>
                /\ enemiesToSpawn' = enemiesToSpawn
                /\ (gameStarted /\ ~gameOver) => enemies' # << >>

C16_LevelUp == [](C16_Request) /\ [][C16_Step]_vars

\* The level-up of a player who had fired three pistol rounds: 9 + 2 rounds,
\* quota 8, a wave of 8 + 2 enemies.
C16_Witness ==
    /\ level = 2 /\ enemiesToSpawn = 8 /\ Len(enemies) = 10 /\ coins >= 5
    /\ currentWeaponKey = "pistol" /\ weapons["pistol"].ammo = 11
    /\ Cardinality(PlayerBullets) = 3 /\ ~reloading

\* C17: two consecutive successful fires are at least the fire interval of
\* the later shot's weapon apart, also across weapon switches and reloads: a
\* fire succeeds only when now - lastShotAt >= fireRate of the current
\* weapon, and lastShotAt is the time of the last successful fire.
C17_Request ==
    now - lastShotAt < WeaponStats[currentWeaponKey].fireRate =>
        LET s == shootAtMouse(G) IN
        /\ s.lastShotAt = lastShotAt /\ s.bullets = bullets
        /\ s.weapons = weapons

C17_Step ==
    /\ lastShotAt' # lastShotAt =>
          /\ lastShotAt' = now'
          /\ now' - lastShotAt >= WeaponStats[currentWeaponKey'].fireRate
          /\ currentWeaponKey' = currentWeaponKey
    /\ Cardinality(PlayerBullets') > Cardinality(PlayerBullets) =>
          lastShotAt' = now' /\ lastShotAt' # lastShotAt

C17_RateLimit == [](C17_Request) /\ [][C17_Step]_vars

\* A pistol round, then the rocket launcher selected and fired 1000 ms after
\* the pistol (its own fire interval), the button still held.
C17_Witness ==
    /\ currentWeaponKey = "rocket" /\ weapons["rocket"].ammo = 1
    /\ weapons["pistol"].ammo = 11 /\ level = 1 /\ ~reloading
    /\ lastShotAt = Epoch + 1000 /\ mouseDown /\ Cardinality(PlayerBullets) = 2

\* C18: one explode call examines every enemy present at call time exactly
\* once: each enemy within the radius loses exactly 3 + level hp, each of
\* them whose hp becomes <= 0 is removed and yields exactly one coin pickup,
\* the enemies outside the radius are unchanged, and the call changes
\* neither score nor coins (nor anything but enemies, pickups, particles).
C18_Request ==
    \A blast \in Blasts(Len(enemies)), rs \in Seeds :
        LET s == explode(G, blast, random(rs))
            n == Len(enemies)
            d == 3 + level
            dead(i) == i \in blast /\ enemies[i].hp - d <= 0
            alive == SelectSeq([i \in 1..n |-> i], LAMBDA i : ~dead(i))
            kills == Cardinality({ i \in 1..n : dead(i) })
        IN  /\ s.enemies = [j \in 1..Len(alive) |->
                               IF alive[j] \in blast
                               THEN [enemies[alive[j]] EXCEPT !.hp = @ - d]
                               ELSE enemies[alive[j]]]
            /\ Len(s.pickups) = Len(pickups) + kills
            /\ SubSeq(s.pickups, 1, Len(pickups)) = pickups
            /\ \A j \in (Len(pickups) + 1)..Len(s.pickups) :
                  /\ s.pickups[j].type = "coin" /\ s.pickups[j].where = "field"
                  /\ s.pickups[j].val \in 3..7
            /\ s.score = score /\ s.coins = coins
            /\ s = [G EXCEPT !.enemies = s.enemies, !.pickups = s.pickups,
                              !.particles = s.particles]

C18_Step ==
    (Len(particles') > Len(particles) /\ particles'[Len(particles')].n = 40) =>
        /\ score' = score /\ coins' = coins
        /\ Len(pickups') - Len(pickups) = Len(enemies) - Len(enemies')
        /\ \A i \in 1..Len(enemies') : enemies'[i].hp > 0

C18_Explode == [](C18_Request) /\ [][C18_Step]_vars

\* An explosion has reached the whole wave of level 5: the 19 other enemies
\* are removed, each for one pickup, and the boss is left with 40 - 8 hp.
C18_Witness ==
    /\ level = 5 /\ score = 0 /\ coins = 0 /\ Len(pickups) = 19
    /\ enemies = << [type |-> "boss", hp |-> 32, lastSpit |-> 0] >>

\* C19: in every reachable state reloading is true if and only if exactly
\* one reload timer is pending, and at most one timer is ever pending.
C19_OneTimer ==
    /\ Len(timers) <= 1
    /\ reloading <=> Len(timers) = 1

\* A reload is pending for a weapon that is no longer the selected one,
\* after the game is over.
C19_Witness ==
    /\ reloading /\ Len(timers) = 1 /\ timers[1].w # currentWeaponKey
    /\ gameOver

\* C20: every weapon whose ammo is 0 is the target of the pending reload
\* timer, so the zero-ammo branch of shootAtMouse (ammo <= 0 with reloading
\* false) is never taken, and every empty weapon eventually returns to
\* maxAmmo.
C20_Inv ==
    /\ \A k \in Keys : weapons[k].ammo = 0 => Reloading(k)
    /\ ~(/\ gameStarted /\ ~gameOver /\ weapons[currentWeaponKey].owned
          /\ ~reloading /\ weapons[currentWeaponKey].ammo <= 0)

C20_Live ==
    \A k \in Keys : (weapons[k].ammo = 0) ~> (weapons[k].ammo = maxAmmo(k))

C20_NeverLeftEmpty == [](C20_Inv) /\ C20_Live

\* The rocket launcher is empty, another weapon is selected and the
\* launcher's reload timer is pending.
C20_Witness ==
    /\ weapons["rocket"].ammo = 0 /\ currentWeaponKey # "rocket"
    /\ timers = << [w |-> "rocket", due |-> lastShotAt + 2200] >>

\* C21: after page init, start, restart and every complete update step
\* either gameOver is true or the enemy list is non-empty, so a running game
\* that is not over always has a wave, and level rises by at most 1 per
\* update step.
C21_Inv ==
    /\ gameOver \/ enemies # << >>
    /\ (gameStarted /\ ~gameOver) => enemies # << >>

C21_Step == level' <= level + 1

C21_WaveAlwaysPresent == [](C21_Inv) /\ [][C21_Step]_vars

\* An update step cleared the first wave and spawned the second one.
C21_Witness ==
    /\ gameStarted /\ ~gameOver /\ level = 2
    /\ Len(enemies) = enemiesToSpawn + 2

\* C22: every one of the 6 weapons is owned in every reachable state, after
\* any sequence of start, restart and shop clicks; so shootAtMouse never
\* rejects a shot for an unowned weapon, every Buy button is disabled, and
\* no purchase changes an owned flag.
C22_Inv ==
    /\ \A k \in Keys : weapons[k].owned
    /\ weapons[currentWeaponKey].owned
    /\ \A key \in ShopKeys :
         /\ ~BuyEnabled(G, key)
         /\ shopClick(G, key) = G
         /\ \A k \in Keys : purchase(G, key).weapons[k].owned = weapons[k].owned

C22_Step == \A k \in Keys : weapons'[k].owned = weapons[k].owned

C22_AllOwned == [](C22_Inv) /\ [][C22_Step]_vars

\* After the game was started twice the rocket launcher, a shop item, has
\* been selected and fired.
C22_Witness ==
    /\ gameStarted /\ ~gameOver /\ pendingUpdate + dueUpdate = 2
    /\ currentWeaponKey = "rocket" /\ weapons["rocket"].ammo < maxAmmo("rocket")
    /\ \E i \in 1..Len(bullets) : bullets[i].from = "player"

====
